---- MODULE Spec2Model ----
(***************************************************************************)
(* A model of the cattle repository: the Cattle agent binary               *)
(* (cattle-herder/src/main.rs), the Herder binary                          *)
(* (cattle-monitor/src/main.rs) and the shared configuration types         *)
(* (cattle-common/src/lib.rs).                                             *)
(*                                                                         *)
(* Two specifications are given.                                           *)
(*   Spec      processes of the two binaries starting on one host: config  *)
(*             loading, mode validation, the identity file (ID_FILE) and   *)
(*             the rest of main.                                           *)
(*   SnapSpec  one CattleState shared by the main thread and concurrent    *)
(*             callers of initial_info / periodic_update: the RwLock, the  *)
(*             refresh stages and the scan of the process table.           *)
(***************************************************************************)
EXTENDS Integers, Sequences, FiniteSets, TLC

(***************************************************************************)
(* Bounds of the model.                                                    *)
(***************************************************************************)
\* process starts on the host (they may overlap or follow one another)
NumProcs == 2
\* distinct outcomes of the random source behind Uuid::new_v4
NumSeeds == 2

(***************************************************************************)
(* Program constants.                                                      *)
(***************************************************************************)
\* Uuid::from_slice accepts exactly 16 bytes; Uuid::as_bytes yields 16
UuidLen == 16
\* cattle_common::DEFAULT_PORT
DEFAULT_PORT == 6543
\* interval_seconds of CattlePush::default and HerderPolls::default
DefaultInterval == 10

Procs == 1..NumProcs
Seeds == 1..NumSeeds

\* Option<T>: None is the empty sequence, Some(x) the sequence holding x.
None == <<>>
Some(x) == <<x>>

(***************************************************************************)
(* cattle-common: Mode and its three variants with their parameters.       *)
(***************************************************************************)
CattlePush == [tag |-> "Push", server |-> "localhost", port |-> DEFAULT_PORT,
               interval_seconds |-> DefaultInterval]

Pull == [tag |-> "Pull", listen |-> DEFAULT_PORT]

HerderPolls == [tag |-> "Poll", cattle |-> <<"localhost">>,
                interval_seconds |-> DefaultInterval]

Mode == {CattlePush, Pull, HerderPolls}

\* What the file named on the command line can hold: nothing readable, text
\* that is not a valid config of the binary, or a config with one Mode.
ConfigFiles == {[kind |-> "unreadable"], [kind |-> "unparsable"]}
                 \cup {[kind |-> "ok", mode |-> m] : m \in Mode}

Binaries == {"cattle", "monitor"}

(***************************************************************************)
(* The identity file and UUIDs.  A Uuid is its 16 bytes.                   *)
(***************************************************************************)
\* Uuid::from_slice: Ok exactly for slices of 16 bytes, the bytes copied.
\* (Result as Option: None is Err.)
FromSliceShort(b) == IF Len(b) <= UuidLen
                     THEN Some([i \in 1..UuidLen |-> IF i <= Len(b) THEN b[i] ELSE 0])
                     ELSE None

FromSlice(b) == IF Len(b) = UuidLen THEN Some(b) ELSE None

\* Uuid::as_bytes
AsBytes(u) == u

\* Uuid::new_v4: 16 random bytes with the version nibble set to 4 and the
\* variant bits set to 10.
NewV4(seed) == [i \in 1..UuidLen |->
                  LET r == (seed * 37 * i + seed) % 256
                  IN  IF i = 7 THEN (r % 16) + 64
                      ELSE IF i = 9 THEN (r % 64) + 128
                      ELSE r]

\* Contents the identity file may have when a process starts: of the right
\* length, one byte short or long, and empty.
FileLens == {0, UuidLen - 1, UuidLen, UuidLen + 1}

FileBytes(n, s) == [i \in 1..n |-> (s * 11 * i + 5) % 256]

InitialFiles == {None} \cup {Some(FileBytes(n, s)) : n \in FileLens, s \in Seeds}

\* Path::exists on ID_FILE
PathExistsNever(f) == FALSE

PathExists(f) == f # None

\* what the account running the agent may do with ID_FILE
Perms == {"rw", "r", "w"}

VARIABLES
  file,      \* ID_FILE: None when absent, else Some(its bytes)
  perm,      \* file-system permission on ID_FILE
  pc,        \* per process: position in main
  bin,       \* per process: which binary was started
  mode,      \* per process: config.herd_config.mode once parsed
  buf,       \* per process: the Vec<u8> read from ID_FILE (line 61)
  fresh,     \* per process: the Uuid generated at line 66
  id,        \* per process: the uuid bound at line 60, CattleState.id
  exit,      \* per process: how the process ended
  stdout,    \* per process: what it printed
  wire       \* per process: Messages sent to a peer (main sends none)

procVars == <<file, perm, pc, bin, mode, buf, fresh, id, exit, stdout, wire>>

(***************************************************************************)
(* One CattleState shared by several callers.                              *)
(*                                                                         *)
(* sys is the sysinfo::System behind Arc<RwLock<..>>: the process table    *)
(* as last read (in iteration order) and how far the current refresh has   *)
(* got (stage 0: a settled sample).                                        *)
(***************************************************************************)
\* callers besides the main thread
NumSessions == 1

\* thread 0 is the main thread (main.rs:174), the others call the pub fns
Threads == 0..NumSessions
IsMain(t) == t = 0

\* Pid 0 is a process of its own on some platforms and none on others
Pids == {0, 1}
\* Process::cpu_usage, in whole percent
Usages == {0, 50}
\* Process::user_id: None, or a uid
Uids == {None, Some(0), Some(1000)}

\* users::get_user_by_uid(..).name(): only root is in the user directory
GetUserByUid(uid) == IF uid = 0 THEN Some("root") ELSE None

Process == [pid : Pids, cpu_usage : Usages, user_id : Uids]

Distinct(tb) == \A i, j \in 1..Len(tb) : tb[i].pid = tb[j].pid => i = j

\* sys.processes() in iteration order
Tables == {tb \in UNION {[1..n -> Process] : n \in 1..Cardinality(Pids)} : Distinct(tb)}

\* the table System::new_all() read in CattleState::default
FirstTable == <<[pid |-> 1, cpu_usage |-> 50, user_id |-> Some(0)]>>

VARIABLES
  sys,       \* [table, stage]: the System
  writer,    \* the thread holding the write guard, if any
  readers,   \* the threads holding a read guard
  poisoned,  \* the RwLock's poison flag
  tpc,       \* per thread: position in the call
  op,        \* per thread: the function it is in
  sel,       \* per thread: biggest_process_pid / biggest_process_usage
  res,       \* per thread: the Result its last call returned
  proc       \* the agent process: "up", "exited" or "panicked"

snapVars == <<sys, writer, readers, poisoned, tpc, op, sel, res, proc>>

vars == <<procVars, snapVars>>

Running == [code |-> -1, why |-> "running"]
Success == [code |-> 0, why |-> "success"]
\* main returning Err: the runtime prints the error and exits with 1
Failure(why) == [code |-> 1, why |-> why]
\* a panic on the main thread: exit status 101
Panic(why) == [code |-> 101, why |-> why]

(***************************************************************************)
(* main of both binaries: config, then the mode validation.                *)
(***************************************************************************)
\* main.rs:183 of the agent and main.rs:38 of the Herder
ModeRejectedSwapped(b, m) ==
  \/ b = "cattle" /\ m.tag = "Push"
  \/ b = "monitor" /\ m.tag = "Poll"

ModeRejected(b, m) ==
  \/ b = "cattle" /\ m.tag = "Poll"
  \/ b = "monitor" /\ m.tag = "Push"

Exit(p, how) ==
  /\ pc' = [pc EXCEPT ![p] = "exited"]
  /\ exit' = [exit EXCEPT ![p] = how]

\* Args::parse, read_to_string and toml::from_str, each with `?`
LoadConfig(p) ==
  /\ pc[p] = "start"
  /\ \E b \in Binaries, c \in ConfigFiles :
       /\ bin' = [bin EXCEPT ![p] = b]
       /\ IF c.kind = "unreadable"
            THEN Exit(p, Failure("failed to read config file")) /\ UNCHANGED mode
          ELSE IF c.kind = "unparsable"
            THEN Exit(p, Failure("failed to parse Toml config file")) /\ UNCHANGED mode
          ELSE /\ mode' = [mode EXCEPT ![p] = Some(c.mode)]
               /\ pc' = [pc EXCEPT ![p] = "validate"]
               /\ UNCHANGED exit
  /\ UNCHANGED <<snapVars, file, perm, buf, fresh, id, stdout, wire>>

\* if matches!(config.herd_config.mode, ...) { bail!(...) }
ValidateMode(p) ==
  /\ pc[p] = "validate"
  /\ IF ModeRejected(bin[p], mode[p][1])
       THEN Exit(p, Failure("mode not acceptable"))
     ELSE IF bin[p] = "monitor"
       THEN Exit(p, Success)
     ELSE pc' = [pc EXCEPT ![p] = "identity"] /\ UNCHANGED exit
  /\ UNCHANGED <<snapVars, file, perm, bin, mode, buf, fresh, id, stdout, wire>>

(***************************************************************************)
(* CattleState::default: the identity file.                                *)
(***************************************************************************)
\* if uuid_path.exists()
CheckExists(p) ==
  /\ pc[p] = "identity"
  /\ pc' = [pc EXCEPT ![p] = IF PathExists(file) THEN "read" ELSE "generate"]
  /\ UNCHANGED <<snapVars, file, perm, bin, mode, buf, fresh, id, exit, stdout, wire>>

\* std::fs::read(ID_FILE).unwrap_or_else(panic)
ReadIdFile(p) ==
  /\ pc[p] = "read"
  /\ IF file # None /\ perm \in {"rw", "r"}
       THEN /\ buf' = [buf EXCEPT ![p] = file]
            /\ pc' = [pc EXCEPT ![p] = "parse"]
            /\ UNCHANGED exit
       ELSE Exit(p, Panic("failed to read ID file")) /\ UNCHANGED buf
  /\ UNCHANGED <<snapVars, file, perm, bin, mode, fresh, id, stdout, wire>>

\* Uuid::from_slice(&uuid).unwrap_or_else(panic)
ParseId(p) ==
  /\ pc[p] = "parse"
  /\ LET r == FromSlice(buf[p][1])
     IN  IF r # None
           THEN /\ id' = [id EXCEPT ![p] = r]
                /\ pc' = [pc EXCEPT ![p] = "keys"]
                /\ UNCHANGED exit
           ELSE Exit(p, Panic("failed to parse ID")) /\ UNCHANGED id
  /\ UNCHANGED <<snapVars, file, perm, bin, mode, buf, fresh, stdout, wire>>

\* let uuid = Uuid::new_v4();
GenUuid(p) ==
  /\ pc[p] = "generate"
  /\ \E s \in Seeds : fresh' = [fresh EXCEPT ![p] = Some(NewV4(s))]
  /\ pc' = [pc EXCEPT ![p] = "create"]
  /\ UNCHANGED <<snapVars, file, perm, bin, mode, buf, id, exit, stdout, wire>>

\* std::fs::write, first half: File::create opens ID_FILE, truncating it
CreateIdFile(p) ==
  /\ pc[p] = "create"
  /\ IF perm \in {"rw", "w"}
       THEN /\ file' = Some(<<>>)
            /\ pc' = [pc EXCEPT ![p] = "write"]
            /\ UNCHANGED exit
       ELSE Exit(p, Panic("failed to save UUID")) /\ UNCHANGED file
  /\ UNCHANGED <<snapVars, perm, bin, mode, buf, fresh, id, stdout, wire>>

\* std::fs::write, second half: write_all(uuid.as_bytes()); the block's value
\* is the new uuid
WriteIdFile(p) ==
  /\ pc[p] = "write"
  /\ file' = Some(AsBytes(fresh[p][1]))
  /\ id' = [id EXCEPT ![p] = fresh[p]]
  /\ pc' = [pc EXCEPT ![p] = "keys"]
  /\ UNCHANGED <<snapVars, perm, bin, mode, buf, fresh, exit, stdout, wire>>

\* the key pair and the first System sampling; CattleState { id: uuid, .. }
BuildState(p) ==
  /\ pc[p] = "keys"
  /\ pc' = [pc EXCEPT ![p] = "info"]
  /\ UNCHANGED <<snapVars, file, perm, bin, mode, buf, fresh, id, exit, stdout, wire>>

(***************************************************************************)
(* The rest of main: one initial_info, printed, then ExitCode::SUCCESS.    *)
(* Nothing is sent to a peer.                                              *)
(***************************************************************************)
\* println!("{:?}", state.initial_info().unwrap()); System::host_name()
\* is unwrapped inside initial_info
PrintInitialInfo(p) ==
  /\ pc[p] = "info"
  /\ \E h \in {None, Some("host")} :
       IF h = None
         THEN Exit(p, Panic("host_name is None")) /\ UNCHANGED stdout
         ELSE /\ stdout' = [stdout EXCEPT ![p] =
                   Append(@, [hostname |-> h[1], id |-> id[p][1]])]
              /\ pc' = [pc EXCEPT ![p] = "return"]
              /\ UNCHANGED exit
  /\ UNCHANGED <<snapVars, file, perm, bin, mode, buf, fresh, id, wire>>

\* Ok(ExitCode::SUCCESS)
ExitSuccess(p) ==
  /\ pc[p] = "return"
  /\ Exit(p, Success)
  /\ UNCHANGED <<snapVars, file, perm, bin, mode, buf, fresh, id, stdout, wire>>

Ok(v) == [kind |-> "Ok", val |-> v]
Err(msg) == [kind |-> "Err", val |-> msg]
\* not a Result: the call unwound
Unwound(msg) == [kind |-> "panic", val |-> msg]

NoSel == [pid |-> 0, usage |-> 0]

\* RwLock::write and RwLock::read: when each can be granted
CanWriteAlways(w, r) == TRUE

CanWrite(w, r) == w = None /\ r = {}

CanRead(w) == w = None

\* where in system_update the write guard `sys` is alive (lines 95..102)
GuardScope == {"refresh_all", "refresh_cpu", "sleep", "refresh_cpu2"}

\* for (_, process) in sys.processes().iter() { if usage > biggest { .. } }
RECURSIVE ScanFrom(_, _, _)
ScanFrom(tb, i, acc) ==
  IF i > Len(tb) THEN acc
  ELSE ScanFrom(tb, i + 1,
         IF tb[i].cpu_usage > acc.usage
           THEN [pid |-> tb[i].pid, usage |-> tb[i].cpu_usage]
           ELSE acc)

\* let mut biggest_process_pid = Pid::from_u32(0); usage = 0f32; the loop
BiggestProcess(tb) == ScanFrom(tb, 1, NoSel)

\* sys.process(pid)
ProcessOf(tb, pid) ==
  IF \E i \in 1..Len(tb) : tb[i].pid = pid
    THEN Some(CHOOSE x \in {tb[i] : i \in 1..Len(tb)} : x.pid = pid)
    ELSE None

\* Process::name
NameOf(pid) == <<"proc", pid>>

(***************************************************************************)
(* Callers.  The main thread makes the one call of main.rs:188; a session  *)
(* calls either pub fn, again and again.                                   *)
(***************************************************************************)
Call(t) ==
  /\ proc = "up"
  /\ tpc[t] \in (IF IsMain(t) THEN {"idle"} ELSE {"idle", "returned"})
  /\ \E f \in (IF IsMain(t) THEN {"initial_info"}
               ELSE {"initial_info", "periodic_update"}) :
       op' = [op EXCEPT ![t] = f]
  /\ res' = [res EXCEPT ![t] = None]
  /\ sel' = [sel EXCEPT ![t] = NoSel]
  /\ tpc' = [tpc EXCEPT ![t] = "write_lock"]
  /\ UNCHANGED <<procVars, sys, writer, readers, poisoned, proc>>

\* a thread unwinds: on the main thread that ends the process
Unwind(t, msg) ==
  /\ tpc' = [tpc EXCEPT ![t] = "panicked"]
  /\ res' = [res EXCEPT ![t] = Some(Unwound(msg))]
  /\ proc' = IF IsMain(t) THEN "panicked" ELSE proc

(***************************************************************************)
(* system_update                                                           *)
(***************************************************************************)
\* if let Ok(mut sys) = self.sys.write() { .. } else { bail!(..) }
AcquireWrite(t) ==
  /\ proc = "up"
  /\ tpc[t] = "write_lock"
  /\ CanWrite(writer, readers)
  /\ IF poisoned
       THEN /\ res' = [res EXCEPT ![t] =
                         Some(Err("Failed to get read-write lock on System"))]
            /\ tpc' = [tpc EXCEPT ![t] = "returned"]
            /\ UNCHANGED writer
       ELSE /\ writer' = Some(t)
            /\ tpc' = [tpc EXCEPT ![t] = "refresh_all"]
            /\ UNCHANGED res
  /\ UNCHANGED <<procVars, sys, readers, poisoned, op, sel, proc>>

\* sys.refresh_all(): the process table is read anew, CPU usage not yet settled
RefreshAll(t) ==
  /\ proc = "up"
  /\ tpc[t] = "refresh_all"
  /\ \E tb \in Tables : sys' = [table |-> tb, stage |-> 1]
  /\ tpc' = [tpc EXCEPT ![t] = "refresh_cpu"]
  /\ UNCHANGED <<procVars, writer, readers, poisoned, op, sel, res, proc>>

\* sys.refresh_cpu_all(): the first CPU sample
RefreshCpu(t) ==
  /\ proc = "up"
  /\ tpc[t] = "refresh_cpu"
  /\ sys' = [sys EXCEPT !.stage = 2]
  /\ tpc' = [tpc EXCEPT ![t] = "sleep"]
  /\ UNCHANGED <<procVars, writer, readers, poisoned, op, sel, res, proc>>

\* std::thread::sleep(sysinfo::MINIMUM_CPU_UPDATE_INTERVAL), guard alive
Sleep(t) ==
  /\ proc = "up"
  /\ tpc[t] = "sleep"
  /\ tpc' = [tpc EXCEPT ![t] = "refresh_cpu2"]
  /\ UNCHANGED <<procVars, sys, writer, readers, poisoned, op, sel, res, proc>>

\* the second sys.refresh_cpu_all(); the guard is dropped at the end of the
\* if-let block; Ok(())
RefreshCpu2(t) ==
  /\ proc = "up"
  /\ tpc[t] = "refresh_cpu2"
  /\ sys' = [sys EXCEPT !.stage = 0]
  /\ writer' = None
  /\ tpc' = [tpc EXCEPT ![t] = "read_lock"]
  /\ UNCHANGED <<procVars, readers, poisoned, op, sel, res, proc>>

\* A sysinfo refresh unwinds while the write guard is alive: the guard's
\* drop poisons the RwLock.  This is the only way write() or read() can
\* return Err, that is, the only way the bail! branches are taken.
RefreshPanics(t) ==
  /\ proc = "up"
  /\ tpc[t] \in {"refresh_all", "refresh_cpu", "refresh_cpu2"}
  /\ poisoned' = TRUE
  /\ writer' = None
  /\ Unwind(t, "refresh")
  /\ UNCHANGED <<procVars, sys, readers, op, sel>>

(***************************************************************************)
(* initial_info and periodic_update after system_update()?                 *)
(***************************************************************************)
\* if let Ok(sys) = self.sys.read() { .. } else { bail!(..) }
AcquireRead(t) ==
  /\ proc = "up"
  /\ tpc[t] = "read_lock"
  /\ CanRead(writer)
  /\ IF poisoned
       THEN /\ res' = [res EXCEPT ![t] =
                  Some(Err("Failed to get a lock on system information handle"))]
            /\ tpc' = [tpc EXCEPT ![t] = "returned"]
            /\ UNCHANGED readers
       ELSE /\ readers' = readers \cup {t}
            /\ tpc' = [tpc EXCEPT ![t] =
                  IF op[t] = "initial_info" THEN "build" ELSE "scan"]
            /\ UNCHANGED res
  /\ UNCHANGED <<procVars, sys, writer, poisoned, op, sel, proc>>

\* Ok(CattleInitialConnect { hostname: System::host_name().unwrap(), .. })
BuildInitial(t) ==
  /\ proc = "up"
  /\ tpc[t] = "build"
  /\ readers' = readers \ {t}
  /\ \E h \in {None, Some("host")} :
       IF h = None
         THEN Unwind(t, "host_name is None")
         ELSE /\ res' = [res EXCEPT ![t] = Some(Ok([hostname |-> h[1]]))]
              /\ tpc' = [tpc EXCEPT ![t] = "returned"]
              /\ UNCHANGED proc
  /\ UNCHANGED <<procVars, sys, writer, poisoned, op, sel>>

\* the loop over sys.processes() (lines 141..148)
Scan(t) ==
  /\ proc = "up"
  /\ tpc[t] = "scan"
  /\ sel' = [sel EXCEPT ![t] = BiggestProcess(sys.table)]
  /\ tpc' = [tpc EXCEPT ![t] = "lookup"]
  /\ UNCHANGED <<procVars, sys, writer, readers, poisoned, op, res, proc>>

\* sys.process(pid).unwrap().user_id().unwrap(), get_user_by_uid(..).unwrap()
\* and the CattleUpdate (lines 150..167)
Lookup(t) ==
  /\ proc = "up"
  /\ tpc[t] = "lookup"
  /\ readers' = readers \ {t}
  /\ LET pr == ProcessOf(sys.table, sel[t].pid)
     IN  IF pr = None
           THEN Unwind(t, "process is None")
         ELSE IF pr[1].user_id = None
           THEN Unwind(t, "user_id is None")
         ELSE IF GetUserByUid(pr[1].user_id[1]) = None
           THEN Unwind(t, "get_user_by_uid is None")
         ELSE /\ res' = [res EXCEPT ![t] = Some(Ok(
                   [running_processes |-> Len(sys.table),
                    most_intense_process_name |-> NameOf(sel[t].pid),
                    most_intense_process_owner |->
                      GetUserByUid(pr[1].user_id[1])[1]]))]
              /\ tpc' = [tpc EXCEPT ![t] = "returned"]
              /\ UNCHANGED proc
  /\ UNCHANGED <<procVars, sys, writer, poisoned, op, sel>>

\* main.rs:188..190: .unwrap() of the Result, println!, Ok(ExitCode::SUCCESS)
MainUnwrap(t) ==
  /\ proc = "up"
  /\ IsMain(t)
  /\ tpc[t] = "returned"
  /\ IF res[t][1].kind = "Err"
       THEN /\ tpc' = [tpc EXCEPT ![t] = "panicked"]
            /\ proc' = "panicked"
       ELSE /\ tpc' = [tpc EXCEPT ![t] = "done"]
            /\ proc' = "exited"
  /\ UNCHANGED <<procVars, sys, writer, readers, poisoned, op, sel, res>>

(***************************************************************************)
(* The two specifications.                                                 *)
(***************************************************************************)
ProcInit ==
  /\ file \in InitialFiles
  /\ perm \in Perms
  /\ pc = [p \in Procs |-> "start"]
  /\ bin = [p \in Procs |-> "cattle"]
  /\ mode = [p \in Procs |-> None]
  /\ buf = [p \in Procs |-> None]
  /\ fresh = [p \in Procs |-> None]
  /\ id = [p \in Procs |-> None]
  /\ exit = [p \in Procs |-> Running]
  /\ stdout = [p \in Procs |-> <<>>]
  /\ wire = [p \in Procs |-> <<>>]

SnapInit ==
  /\ sys = [table |-> FirstTable, stage |-> 0]
  /\ writer = None
  /\ readers = {}
  /\ poisoned = FALSE
  /\ tpc = [t \in Threads |-> "idle"]
  /\ op = [t \in Threads |-> "initial_info"]
  /\ sel = [t \in Threads |-> NoSel]
  /\ res = [t \in Threads |-> None]
  /\ proc = "up"

Init == ProcInit /\ SnapInit

Next ==
  \/ \E p \in Procs : LoadConfig(p)
  \/ \E p \in Procs : ValidateMode(p)
  \/ \E p \in Procs : CheckExists(p)
  \/ \E p \in Procs : ReadIdFile(p)
  \/ \E p \in Procs : ParseId(p)
  \/ \E p \in Procs : GenUuid(p)
  \/ \E p \in Procs : CreateIdFile(p)
  \/ \E p \in Procs : WriteIdFile(p)
  \/ \E p \in Procs : BuildState(p)
  \/ \E p \in Procs : PrintInitialInfo(p)
  \/ \E p \in Procs : ExitSuccess(p)

Spec == Init /\ [][Next]_vars

SnapNext ==
  \/ \E t \in Threads : Call(t)
  \/ \E t \in Threads : AcquireWrite(t)
  \/ \E t \in Threads : RefreshAll(t)
  \/ \E t \in Threads : RefreshCpu(t)
  \/ \E t \in Threads : Sleep(t)
  \/ \E t \in Threads : RefreshCpu2(t)
  \/ \E t \in Threads : RefreshPanics(t)
  \/ \E t \in Threads : AcquireRead(t)
  \/ \E t \in Threads : BuildInitial(t)
  \/ \E t \in Threads : Scan(t)
  \/ \E t \in Threads : Lookup(t)
  \/ \E t \in Threads : MainUnwrap(t)

\* one agent started on an installation with no identity file yet
SnapStart ==
  /\ SnapInit
  /\ file = None
  /\ perm = "rw"
  /\ pc = [p \in Procs |-> "start"]
  /\ bin = [p \in Procs |-> "cattle"]
  /\ mode = [p \in Procs |-> None]
  /\ buf = [p \in Procs |-> None]
  /\ fresh = [p \in Procs |-> None]
  /\ id = [p \in Procs |-> None]
  /\ exit = [p \in Procs |-> Running]
  /\ stdout = [p \in Procs |-> <<>>]
  /\ wire = [p \in Procs |-> <<>>]

SnapSpec == SnapStart /\ [][SnapNext]_vars

(***************************************************************************)
(* Properties under Spec.                                                  *)
(***************************************************************************)
\* C1: the agent started with Mode::Poll and the Herder started with
\* Mode::Push end with a non-zero exit status before doing anything else
\* (no identity is loaded, nothing is printed); with either of the other two
\* modes the validation passes.
C1_ModeValidationFatal ==
  \A p \in Procs :
    (mode[p] # None /\ pc[p] # "validate") =>
      LET m == mode[p][1]
          fatal == \/ bin[p] = "cattle" /\ m = HerderPolls
                   \/ bin[p] = "monitor" /\ m = CattlePush
      IN  IF fatal
            THEN /\ pc[p] = "exited"
                 /\ exit[p] = Failure("mode not acceptable")
                 /\ exit[p].code # 0
                 /\ id[p] = None /\ buf[p] = None /\ fresh[p] = None
                 /\ stdout[p] = <<>>
            ELSE exit[p] # Failure("mode not acceptable")

C1_Witness ==
  \E p, q \in Procs :
    /\ bin[p] = "cattle" /\ mode[p] = Some(HerderPolls) /\ pc[p] = "exited"
    /\ bin[q] = "monitor" /\ mode[q] = Some(CattlePush) /\ pc[q] = "exited"

ValidFiles == {f \in InitialFiles : f # None /\ Len(f[1]) = UuidLen}

MalformedFiles == {f \in InitialFiles : f # None /\ Len(f[1]) # UuidLen}

\* C2: when the identity file holds 16 bytes at the first start, every start
\* that loads the identity gets those 16 bytes as its id, whatever the number
\* and interleaving of starts, no start generates a new id or fails to parse,
\* and the file keeps its contents.
C2_IdentityLoadIdempotent ==
  \A f \in ValidFiles :
    (file = f) =>
      [](/\ file = f
         /\ \A p \in Procs :
              /\ id[p] # None => AsBytes(id[p][1]) = f[1]
              /\ pc[p] \in {"keys", "info", "return"} => id[p] # None
              /\ fresh[p] = None
              /\ exit[p] # Panic("failed to parse ID"))

C2_Witness ==
  \E p, q \in Procs :
    /\ p # q
    /\ exit[p] = Success /\ exit[q] = Success
    /\ bin[p] = "cattle" /\ bin[q] = "cattle"
    /\ buf[p] = file /\ buf[q] = file
    /\ id[p] = file /\ id[q] = id[p]

\* C3: when the identity file exists and does not hold exactly 16 bytes, every
\* load that reads it ends in the "failed to parse ID" panic, no process ever
\* has an id, none is generated, and the file keeps its contents.
C3_MalformedIdentityFatal ==
  \A f \in MalformedFiles :
    (file = f) =>
      [](/\ file = f
         /\ \A p \in Procs :
              /\ id[p] = None
              /\ fresh[p] = None
              /\ pc[p] \notin {"keys", "info", "return"}
              /\ buf[p] # None =>
                   \/ pc[p] = "parse"
                   \/ exit[p] = Panic("failed to parse ID") /\ exit[p].code # 0)

C3_Witness ==
  \E p \in Procs :
    /\ exit[p] = Panic("failed to parse ID")
    /\ buf[p] = file
    /\ Len(file[1]) = UuidLen + 1
    /\ id[p] = None

\* C6 (as claimed): a Push agent that has built its InitialConnect report has
\* sent SendInitialInfo exactly once, before any SendUpdate, and does not end
\* on its own: it goes on sending SendUpdate.
C6_PushSession ==
  \A p \in Procs :
    (bin[p] = "cattle" /\ mode[p] = Some(CattlePush) /\ stdout[p] # <<>>) =>
      /\ Cardinality({i \in DOMAIN wire[p] :
                        wire[p][i].type = "SendInitialInfo"}) = 1
      /\ \A i \in DOMAIN wire[p] :
           wire[p][i].type = "SendUpdate" =>
             \E j \in 1..(i - 1) : wire[p][j].type = "SendInitialInfo"
      /\ pc[p] # "exited"

\* C10 (as claimed): whatever the interleaving of starts, the id of every
\* process that has one is what the identity file holds.
C10_IdCreatedOnce ==
  \A p \in Procs : id[p] # None => file = Some(AsBytes(id[p][1]))

(***************************************************************************)
(* Properties under SnapSpec.                                              *)
(***************************************************************************)
\* C4 (as claimed): the process selected by the scan is in the table, no
\* process of the table has a higher CPU usage, and every process before it
\* in iteration order has a lower one.
C4_FirstMaximalSelected ==
  \A t \in Threads :
    tpc[t] = "lookup" =>
      \E i \in 1..Len(sys.table) :
        /\ sys.table[i].pid = sel[t].pid
        /\ \A j \in 1..Len(sys.table) :
             sys.table[j].cpu_usage <= sys.table[i].cpu_usage
        /\ \A j \in 1..(i - 1) :
             sys.table[j].cpu_usage < sys.table[i].cpu_usage

\* C5 (as claimed): periodic_update never aborts because the selected
\* process is gone, has no owner id, or has an owner the user directory
\* does not know.
C5_OwnerFallback ==
  \A t \in Threads :
    (op[t] = "periodic_update" /\ res[t] # None) =>
      res[t][1] \notin {Unwound("process is None"),
                        Unwound("user_id is None"),
                        Unwound("get_user_by_uid is None")}

\* C7: at most one caller is inside the refresh of system_update, and while
\* a caller reads the System (building a report, scanning the table, looking
\* the owner up) no refresh is in progress and the System is a settled
\* sample.
C7_RefreshSerialized ==
  /\ Cardinality({t \in Threads : tpc[t] \in GuardScope}) <= 1
  /\ \A t \in Threads :
       tpc[t] \in {"build", "scan", "lookup"} =>
         /\ sys.stage = 0
         /\ \A u \in Threads : tpc[u] \notin GuardScope

C7_Witness ==
  \E t, u \in Threads :
    /\ t # u
    /\ tpc[t] = "sleep" /\ sys.stage = 2
    /\ tpc[u] = "read_lock"

\* C8 (as claimed): while a caller is in the settling delay, the lock is
\* free for another caller to take.
C8_LockFreeDuringSleep ==
  \A t \in Threads : tpc[t] = "sleep" => writer # Some(t)

\* C9 (as claimed): a caller whose call returned Err for want of the lock
\* does not unwind, and the process is not ended by it.
C9_SnapshotFailureRecoverable ==
  \A t \in Threads :
    (res[t] # None /\ res[t][1].kind = "Err") =>
      /\ tpc[t] # "panicked"
      /\ IsMain(t) => proc = "up"

====
